---- MODULE Spec2Model ----
(***************************************************************************)
(* Model of docarray's VideoTensor coercion gate                           *)
(* (docarray/typing/tensor/video/video_tensor.py) and of the AnyUrl        *)
(* validation pipeline and load_bytes (docarray/typing/url/any_url.py).    *)
(***************************************************************************)
EXTENDS Integers, Sequences, FiniteSets, TLC

VARIABLES
    torch_available,   \* video_tensor.py:9   is_torch_available()
    tf_available,      \* video_tensor.py:17  is_tf_available()
    heap,              \* the live Python objects: heap[i] = [cls, src]
    res,               \* outcome of the last tensor operation
    calls,             \* the AnyUrl.validate calls: calls[c] is call c's frame
    fs,                \* the filesystem: fs[path] is the file's bytes, or "absent"
    load               \* the last load_bytes call and what it did

tensorVars == <<torch_available, tf_available, heap, res>>

vars == <<torch_available, tf_available, heap, res, calls, fs, load>>

(***************************************************************************)
(* Bounds                                                                  *)
(***************************************************************************)
MaxObjs == 2
MaxName == 1
MaxLoads == 2

None == "None"

(***************************************************************************)
(* ---------------------  VideoTensor (coercion gate)  ------------------- *)
(***************************************************************************)

\* The runtime types a raw value can have.
Classes ==
    { "VideoTorchTensor", "TorchTensor", "torch.Tensor",
      "VideoTensorFlowTensor", "TensorFlowTensor", "tf.Tensor",
      "VideoNdArray", "np.ndarray", "int" }

\* The wrappers of the video family.
VideoWrappers == { "VideoTorchTensor", "VideoTensorFlowTensor", "VideoNdArray" }

\* The classes each class derives from (itself included).
Bases(c) ==
    CASE c = "VideoTorchTensor"      -> { "VideoTorchTensor", "TorchTensor", "torch.Tensor" }
      [] c = "TorchTensor"           -> { "TorchTensor", "torch.Tensor" }
      [] c = "VideoTensorFlowTensor" -> { "VideoTensorFlowTensor", "TensorFlowTensor" }
      [] c = "VideoNdArray"          -> { "VideoNdArray", "np.ndarray" }
      [] OTHER                       -> { c }

\* isinstance(value, c) for the object v of heap h
IsInstance(h, v, c) == c \in Bases(h[v].cls)

\* The result of a call that returns the object o; nh is the heap after it.
Returned(nh, o, tried) ==
    [kind |-> "returned", obj |-> o, heap |-> nh, tried |-> tried,
     expected |-> <<>>, got |-> None]

\* The result of a call that raises.
Raised(h, kind, tried, expected, got) ==
    [kind |-> kind, obj |-> 0, heap |-> h, tried |-> tried,
     expected |-> expected, got |-> got]

\* A branch that falls through to the next test.
NoReturn(h, tried) ==
    [kind |-> "none", obj |-> 0, heap |-> h, tried |-> tried,
     expected |-> <<>>, got |-> None]

\* cast(T, value): the value itself
Cast(h, v, tried) == Returned(h, v, tried)

\* <wrapper>._docarray_from_native(value): a new wrapper of class w around v
FromNative(h, v, w, tried) ==
    Returned(Append(h, [cls |-> w, src |-> v]), Len(h) + 1, tried)

\* VideoNdArray.validate(value, field, config): the wrapper, or its own error
NdArrayValidate(h, v, ok, tried) ==
    IF ok THEN FromNative(h, v, "VideoNdArray", tried)
          ELSE Raised(h, "ValidationError", tried, <<>>, None)

\* if torch_available: ...; tried are the backends tested before
TorchBranch(h, v, torch, tried) ==
    IF ~torch THEN NoReturn(h, tried)
    ELSE IF IsInstance(h, v, "TorchTensor")
         THEN Cast(h, v, Append(tried, "torch"))
    ELSE IF IsInstance(h, v, "torch.Tensor")
         THEN FromNative(h, v, "VideoTorchTensor", Append(tried, "torch"))
    ELSE NoReturn(h, Append(tried, "torch"))

\* if tf_available: ...
TfBranch(h, v, tf, tried) ==
    IF ~tf THEN NoReturn(h, tried)
    ELSE IF IsInstance(h, v, "TensorFlowTensor")
         THEN Cast(h, v, Append(tried, "tensorflow"))
    ELSE IF IsInstance(h, v, "tf.Tensor")
         THEN FromNative(h, v, "VideoTensorFlowTensor", Append(tried, "tensorflow"))
    ELSE NoReturn(h, Append(tried, "tensorflow"))

\* NumpyBranch without its VideoNdArray test: the wrapper is wrapped again.
NumpyBranch_Rewrap(h, v, ok, tried) ==
    IF IsInstance(h, v, "np.ndarray")
    THEN NdArrayValidate(h, v, ok, Append(tried, "numpy"))
    ELSE NoReturn(h, Append(tried, "numpy"))

\* if isinstance(value, VideoNdArray): ...; if isinstance(value, np.ndarray): ...
NumpyBranch(h, v, ok, tried) ==
    IF IsInstance(h, v, "VideoNdArray")
    THEN Cast(h, v, Append(tried, "numpy"))
    ELSE IF IsInstance(h, v, "np.ndarray")
         THEN NdArrayValidate(h, v, ok, Append(tried, "numpy"))
    ELSE NoReturn(h, Append(tried, "numpy"))

\* The families the TypeError message names.
ExpectedFamilies == <<"torch.Tensor", "tensorflow.Tensor", "numpy.ndarray">>

\* Unsupported falling back to a numpy wrapper instead of raising.
Unsupported_Coerce(h, v, tried) ==
    FromNative(h, v, "VideoNdArray", tried)

\* raise TypeError("Expected one of [torch.Tensor, tensorflow.Tensor,
\* numpy.ndarray] compatible type, got {type(value)}")
Unsupported(h, v, tried) ==
    Raised(h, "TypeError", tried, ExpectedFamilies, h[v].cls)

\* VideoTensor.validate(value, field, config); ok is whether the delegated
\* VideoNdArray.validate accepts a numpy array.
VideoTensorValidate(h, v, torch, tf, ok) ==
    LET a == TorchBranch(h, v, torch, <<>>)
        b == TfBranch(h, v, tf, a.tried)
        d == NumpyBranch(h, v, ok, b.tried)
    IN  IF a.kind # "none" THEN a
        ELSE IF b.kind # "none" THEN b
        ELSE IF d.kind # "none" THEN d
        ELSE Unsupported(h, v, d.tried)

\* The operations VideoTensor defines besides validate.
AbstractOps ==
    { "__getitem__", "__setitem__", "__iter__", "__len__",
      "_docarray_from_native", "get_comp_backend", "to_protobuf",
      "_docarray_to_json_compatible", "from_protobuf" }

\* What calling op on VideoTensor does: the body is `pass` or a raise.
AbstractCall(op) ==
    IF op \in { "__getitem__", "__setitem__", "__iter__", "__len__" }
    THEN "returned"
    ELSE "AttributeError"

NoRes == [op |-> "none", arg |-> 0, kind |-> "none", obj |-> 0,
          tried |-> <<>>, expected |-> <<>>, got |-> None]

TensorInit ==
    /\ torch_available \in BOOLEAN
    /\ tf_available \in BOOLEAN
    /\ heap = <<>>
    /\ res = NoRes

\* The coercion gate at rest, for the specifications of the URL type.
TensorIdle ==
    /\ torch_available = FALSE
    /\ tf_available = FALSE
    /\ heap = <<>>
    /\ res = NoRes

\* The caller builds a value of class c.
NewValue ==
    \E c \in Classes :
        /\ Len(heap) < MaxObjs
        /\ heap' = Append(heap, [cls |-> c, src |-> 0])
        /\ UNCHANGED <<torch_available, tf_available, res, calls, fs, load>>

\* VideoTensor.validate(value, ...) on a live object
Validate ==
    \E v \in DOMAIN heap, ok \in BOOLEAN :
        LET r == VideoTensorValidate(heap, v, torch_available, tf_available, ok)
        IN  /\ Len(r.heap) <= MaxObjs + 1
            /\ heap' = r.heap
            /\ res' = [op |-> "validate", arg |-> v, kind |-> r.kind,
                       obj |-> r.obj, tried |-> r.tried,
                       expected |-> r.expected, got |-> r.got]
            /\ UNCHANGED <<torch_available, tf_available, calls, fs, load>>

\* One of the other operations is called on VideoTensor.
AbstractOp ==
    \E op \in AbstractOps :
        /\ res' = [op |-> op, arg |-> 0, kind |-> AbstractCall(op), obj |-> 0,
                   tried |-> <<>>, expected |-> <<>>, got |-> None]
        /\ UNCHANGED <<torch_available, tf_available, heap, calls, fs, load>>

TensorNext == NewValue \/ Validate \/ AbstractOp

(***************************************************************************)
(* ------------------------  AnyUrl.validate  ---------------------------- *)
(* A string is a sequence of tokens; startswith, endswith, split and the   *)
(* extension lookup are computed on the tokens.                            *)
(***************************************************************************)

\* Tokens a value can begin with, and the scheme and port they spell.
HttpHeads == { "http://h/", "http://h:99999/" }
SchemeOf(t) ==
    CASE t \in HttpHeads    -> "http"
      [] t = "https://h/"   -> "https"
      [] t = "data:"        -> "data"
      [] t = "ftp://h/"     -> "ftp"
      [] OTHER              -> None
PortOf(t) == IF t = "http://h:99999/" THEN 99999 ELSE 0

ExtTokens == { ".png", ".foo" }
QueryTokens == { "?q" }

RECURSIVE Repeat(_, _)
Repeat(t, n) == IF n = 0 THEN <<>> ELSE <<t>> \o Repeat(t, n - 1)

\* The raw values: [head][name][extension][query][trailing blank]
Values ==
    { h \o Repeat("a", n) \o e \o q :
        h \in { <<>>, <<"/">>, <<"http://h/">>, <<"http://h:99999/">> },
        n \in 1..MaxName,
        e \in { <<>>, <<".png">>, <<".foo">> },
        q \in { <<>>, <<"?q">>, <<"?q", " ">> } }

\* The concrete URL subtypes: mime_type() and allowed_extensions()
UrlClass(mime, exts) ==
    [ mime |-> mime, exts |-> exts, allowed_schemes |-> None,
      user_required |-> FALSE ]

UrlClasses ==
    { UrlClass("image", { ".png" }), UrlClass("video", { ".png" }),
      UrlClass("image", { ".foo" }) }

\* value.startswith('http')
StartsWithHttp(v) == v # <<>> /\ v[1] \in HttpHeads

\* os.path.isabs(value)
IsAbs(v) == v # <<>> /\ v[1] = "/"

\* isinstance(value, str) and not value.startswith('http')
\*                        and not os.path.isabs(value)
IsRelativePath(v) == ~StartsWithHttp(v) /\ ~IsAbs(v)

\* The current working directory.
Cwd == <<"/", "w", "/">>

\* os.path.abspath that leaves a relative path as it is.
AbsPath_Identity(v) == v

\* os.path.abspath(value), for a relative value
AbsPath(v) == Cwd \o v

\* str.strip(): leading and trailing blanks removed
RECURSIVE Strip(_)
Strip(v) ==
    IF v = <<>> THEN v
    ELSE IF v[1] = " " THEN Strip(Tail(v))
    ELSE IF v[Len(v)] = " " THEN Strip(SubSeq(v, 1, Len(v) - 1))
    ELSE v

\* The parts the URL grammar finds in v.
PartsOf(v) ==
    [ scheme |-> IF v = <<>> THEN None ELSE SchemeOf(v[1]),
      port   |-> IF v = <<>> THEN 0 ELSE PortOf(v[1]),
      user   |-> None ]

\* AnyUrl.validate_parts(parts): "ok", or the error it raises
ValidateParts(parts, cls) ==
    IF /\ parts.scheme # None
       /\ cls.allowed_schemes # None
       /\ parts.scheme \notin cls.allowed_schemes
    THEN "UrlSchemePermittedError"
    ELSE IF parts.port > 65535 THEN "UrlPortError"
    ELSE IF cls.user_required /\ parts.user = None THEN "UrlUserInfoError"
    ELSE "ok"

\* super().validate(abs_path, field, config): the validated form of the
\* value (surrounding blanks stripped), or the grammar error.
BaseValidate(v, cls) ==
    LET g == ValidateParts(PartsOf(Strip(v)), cls)
    IN  [ grammar |-> g, url |-> IF g = "ok" THEN Strip(v) ELSE <<>> ]

RECURSIVE SplitQuery(_)
\* value.split("?")[0]
SplitQuery(v) ==
    IF v = <<>> \/ v[1] \in QueryTokens THEN <<>>
    ELSE <<v[1]>> \o SplitQuery(Tail(v))

\* The extension -> mime type table of the mimetypes module.
TypesMap(ext) == IF ext = ".png" THEN <<"image", "/png">> ELSE <<>>

\* mimetypes.guess_type(path)[0]: the extension is the last token, if a name
\* precedes it; <<>> is None.
GuessType(v) ==
    IF /\ Len(v) >= 2
       /\ v[Len(v)] \in ExtTokens
       /\ v[Len(v) - 1] = "a"
    THEN TypesMap(v[Len(v)])
    ELSE <<>>

\* What urlopen(value) can do: fail, or answer with a content main type.
ProbeOutcomes == { "fail", "image" }

\* A failed probe leaving a bogus mime type behind.
ProbeMime_Unknown(outcome) ==
    IF outcome = "fail" THEN <<"unknown">> ELSE <<outcome>>

\* try: r = urlopen(value) / except: pass / else: mimetype = r.headers...
ProbeMime(outcome) ==
    IF outcome = "fail" THEN <<>> ELSE <<outcome>>

\* s.endswith(ext)
EndsWith(v, ext) == v # <<>> /\ v[Len(v)] = ext

\* any(value.endswith(ext) or value.split("?")[0].endswith(ext) for ext in ...)
AllowedExtension(value, cls) ==
    \E ext \in cls.exts :
        EndsWith(value, ext) \/ EndsWith(SplitQuery(value), ext)

\* mimetype.startswith(cls.mime_type())
MimeStartsWith(mimetype, cls) == mimetype # <<>> /\ mimetype[1] = cls.mime

\* The returned text that is always the validated (absolute) form.
FinalText_Validated(rel, value, url) == url

\* cls(str(value), scheme=None) if input_is_relative_path
\* else cls(str(url), scheme=None)
FinalText(rel, value, url) == IF rel THEN value ELSE url

\* The format check that consults the extension whitelist first.
VerifyFormat_ExtFirst(value, cls, mimetype) ==
    IF AllowedExtension(value, cls)
    THEN [ skip_check |-> TRUE, err |-> "none" ]
    ELSE IF ~MimeStartsWith(mimetype, cls)
    THEN [ skip_check |-> FALSE, err |-> "not_mime_format" ]
    ELSE [ skip_check |-> FALSE, err |-> "none" ]

\* skip_check = False ... raise ValueError(...): the format verification
VerifyFormat(value, cls, mimetype) ==
    IF mimetype = <<>>
    THEN IF ~AllowedExtension(value, cls)
         THEN [ skip_check |-> FALSE, err |-> "not_valid_format" ]
         ELSE [ skip_check |-> TRUE, err |-> "none" ]
    ELSE IF ~MimeStartsWith(mimetype, cls)
         THEN [ skip_check |-> FALSE, err |-> "not_mime_format" ]
         ELSE [ skip_check |-> FALSE, err |-> "none" ]

\* The frame of a call that has not started.
IdleCall ==
    [ pc |-> "idle", value |-> <<>>, cls |-> None, rel |-> FALSE,
      abs_path |-> <<>>, grammar |-> "none", url |-> <<>>, guessed |-> <<>>,
      probed |-> FALSE, probe |-> "none", mimetype |-> <<>>,
      skip_check |-> FALSE, err |-> "none", text |-> <<>> ]

\* The end of the call: format verification and the return value.
Finish(f, mimetype) ==
    LET c == VerifyFormat(f.value, f.cls, mimetype)
    IN  [ f EXCEPT
            !.mimetype = mimetype,
            !.skip_check = c.skip_check,
            !.err = c.err,
            !.pc = IF c.err = "none" THEN "accepted" ELSE "rejected",
            !.text = IF c.err = "none"
                     THEN FinalText(f.rel, f.value, f.url) ELSE <<>> ]

\* The call up to the network probe: path normalisation, grammar validation
\* and the extension lookup; it ends there unless the probe is needed.
Begin(value, cls) ==
    LET rel == IsRelativePath(value)
        abs_path == IF rel THEN AbsPath(value) ELSE value
        b == BaseValidate(abs_path, cls)
        f == [ IdleCall EXCEPT !.value = value, !.cls = cls, !.rel = rel,
                               !.abs_path = abs_path, !.grammar = b.grammar,
                               !.url = b.url ]
        guessed == GuessType(SplitQuery(value))
    IN  IF b.grammar # "ok"
        THEN [ f EXCEPT !.pc = "rejected", !.err = "grammar" ]
        ELSE IF guessed # <<>>
        THEN Finish([ f EXCEPT !.guessed = guessed ], guessed)
        ELSE [ f EXCEPT !.pc = "probing" ]

Calls == { 1, 2 }

UrlInit == calls = [ c \in Calls |-> IdleCall ]

\* cls.validate(value, field, config) is called; the call runs to its return,
\* its raise, or the urlopen of the probe.
UrlValidate(c) ==
    \E value \in Values, cls \in UrlClasses :
        /\ calls[c].pc = "idle"
        /\ calls' = [ calls EXCEPT ![c] = Begin(value, cls) ]
        /\ UNCHANGED <<tensorVars, fs, load>>

\* A probe whose answer is kept in state shared by the calls: a call that
\* is still probing clears it.
ProbeReturn_Shared(c) ==
    \E outcome \in ProbeOutcomes :
        /\ calls[c].pc = "probing"
        /\ calls' = [ calls EXCEPT ![c] =
               Finish([ calls[c] EXCEPT !.probed = TRUE, !.probe = outcome ],
                      IF \E o \in Calls \ {c} : calls[o].pc = "probing"
                      THEN <<>> ELSE ProbeMime(outcome)) ]
        /\ UNCHANGED <<tensorVars, fs, load>>

\* urlopen(value) returns or raises, and the call runs to its end.
ProbeReturn(c) ==
    \E outcome \in ProbeOutcomes :
        /\ calls[c].pc = "probing"
        /\ calls' = [ calls EXCEPT ![c] =
               Finish([ calls[c] EXCEPT !.probed = TRUE, !.probe = outcome ],
                      ProbeMime(outcome)) ]
        /\ UNCHANGED <<tensorVars, fs, load>>

\* The caller takes the value, or the error, of a call that has ended.
UrlReturn(c) ==
    /\ calls[c].pc \in { "accepted", "rejected" }
    /\ calls' = [ calls EXCEPT ![c] = IdleCall ]
    /\ UNCHANGED <<tensorVars, fs, load>>

(***************************************************************************)
(* ------------------------  AnyUrl.load_bytes  -------------------------- *)
(***************************************************************************)

\* The URL values load_bytes is called on.
LoadTexts ==
    { <<"http://h/", "a", ".png">>, <<"https://h/", "a", ".png">>,
      <<"data:", "a">>, <<"ftp://h/", "a", ".png">>,
      <<"/", "a", ".png">>, <<"a", ".png">> }

\* The names a file can have, and the bytes a file or a response can hold.
Paths ==
    { <<"http://h/", "a", ".png">>, <<"ftp://h/", "a", ".png">>,
      <<"/", "a", ".png">>, <<"a", ".png">> }
Contents == { "b1", "b2" }

\* What the one urlopen of a call can do: answer with a body, or fail.
FetchOutcomes == Contents \cup { "URLError" }

\* urllib.parse.urlparse(self).scheme
UrlParseScheme(u) ==
    IF u = <<>> \/ SchemeOf(u[1]) = None THEN "" ELSE SchemeOf(u[1])

\* os.path.exists(self)
Exists(fsys, u) == u \in DOMAIN fsys /\ fsys[u] # "absent"

\* load_bytes that reads the local file when the fetch fails.
LoadBytesResult_Fallback(u, fsys, net) ==
    IF UrlParseScheme(u) \in { "http", "https", "data" }
    THEN IF net = "URLError" /\ Exists(fsys, u)
         THEN [ kind |-> "returned", value |-> fsys[u], net |-> net,
                fetches |-> 1, fs_ops |-> 2 ]
         ELSE IF net = "URLError"
         THEN [ kind |-> "raised", value |-> net, net |-> net,
                fetches |-> 1, fs_ops |-> 1 ]
         ELSE [ kind |-> "returned", value |-> net, net |-> net,
                fetches |-> 1, fs_ops |-> 0 ]
    ELSE IF Exists(fsys, u)
    THEN [ kind |-> "returned", value |-> fsys[u], net |-> "none",
           fetches |-> 0, fs_ops |-> 2 ]
    ELSE [ kind |-> "raised", value |-> "FileNotFoundError", net |-> "none",
           fetches |-> 0, fs_ops |-> 1 ]

\* self.load_bytes(timeout): what it returns or raises, the urlopen calls it
\* makes (fetches) and the filesystem calls it makes (fs_ops: exists, open);
\* net is what its urlopen does.
LoadBytesResult(u, fsys, net) ==
    IF UrlParseScheme(u) \in { "http", "https", "data" }
    THEN IF net = "URLError"
         THEN [ kind |-> "raised", value |-> net, net |-> net,
                fetches |-> 1, fs_ops |-> 0 ]
         ELSE [ kind |-> "returned", value |-> net, net |-> net,
                fetches |-> 1, fs_ops |-> 0 ]
    ELSE IF Exists(fsys, u)
    THEN [ kind |-> "returned", value |-> fsys[u], net |-> "none",
           fetches |-> 0, fs_ops |-> 2 ]
    ELSE [ kind |-> "raised", value |-> "FileNotFoundError", net |-> "none",
           fetches |-> 0, fs_ops |-> 1 ]

NoLoad ==
    [ n |-> 0, url |-> <<>>, kind |-> "none", value |-> "none", net |-> "none",
      fetches |-> 0, fs_ops |-> 0 ]

LoadInit ==
    /\ fs = [ p \in Paths |-> "absent" ]
    /\ load = NoLoad

\* Someone writes or removes a file.
FsWrite ==
    \E p \in Paths, b \in Contents \cup { "absent" } :
        /\ fs' = [ fs EXCEPT ![p] = b ]
        /\ UNCHANGED <<tensorVars, calls, load>>

\* url.load_bytes(timeout) is called and runs to its end.
LoadBytes ==
    \E u \in LoadTexts, net \in FetchOutcomes :
        LET r == LoadBytesResult(u, fs, net)
        IN  /\ load.n < MaxLoads
            /\ load' = [ n |-> load.n + 1, url |-> u, kind |-> r.kind,
                         value |-> r.value, net |-> r.net,
                         fetches |-> r.fetches, fs_ops |-> r.fs_ops ]
            /\ UNCHANGED <<tensorVars, calls, fs>>

LoadNext == FsWrite \/ LoadBytes

Init == TensorIdle /\ UrlInit /\ LoadInit

Next == \E c \in Calls : UrlValidate(c) \/ ProbeReturn(c) \/ UrlReturn(c)

Spec == Init /\ [][Next]_vars

\* The coercion gate, for each pair of availability flags.
InitTensor == TensorInit /\ UrlInit /\ LoadInit

SpecTensor == InitTensor /\ [][TensorNext]_vars

SpecLoad == Init /\ [][LoadNext]_vars

(***************************************************************************)
(* Claims about the coercion gate (checked under SpecTensor)               *)
(***************************************************************************)

\* The class of the raw value of the last validate call.
ArgCls == heap[res.arg].cls

\* C1: whenever VideoTensor.validate returns a value, that value is a wrapper
\* of the video family (VideoTorchTensor, VideoTensorFlowTensor, VideoNdArray).
C1_ReturnsVideoWrapper ==
    (res.op = "validate" /\ res.kind = "returned")
        => heap[res.obj].cls \in VideoWrappers

\* The raw value is a wrapper or native array of an installed backend, or a
\* numpy array / VideoNdArray.
SupportedInput(c) ==
    \/ torch_available /\ c \in {"VideoTorchTensor", "TorchTensor", "torch.Tensor"}
    \/ tf_available /\ c \in {"VideoTensorFlowTensor", "TensorFlowTensor", "tf.Tensor"}
    \/ c \in {"VideoNdArray", "np.ndarray"}

\* C2: validate on a value that is neither a wrapper nor a native array of an
\* installed backend nor a numpy array fails with the TypeError that names
\* torch.Tensor, tensorflow.Tensor, numpy.ndarray and the received type, and
\* returns no wrapper.
C2_UnsupportedRaises ==
    (res.op = "validate" /\ ~SupportedInput(ArgCls))
        => /\ res.kind = "TypeError"
           /\ res.expected = <<"torch.Tensor", "tensorflow.Tensor", "numpy.ndarray">>
           /\ res.got = ArgCls
           /\ res.obj = 0
           /\ \A i \in DOMAIN heap : heap[i].src # res.arg

\* C2 witness: a native array of a backend that is not installed was rejected.
C2_Witness ==
    /\ res.op = "validate"
    /\ ~torch_available
    /\ ArgCls = "torch.Tensor"
    /\ res.kind = "TypeError"

\* C3: every structural operation on the unspecialized VideoTensor ends in
\* the 'should not be called on VideoTensor' failure.
C3_StructuralOpsRaise ==
    res.op \in { "__getitem__", "__setitem__", "__iter__", "__len__",
                 "to_protobuf", "from_protobuf",
                 "_docarray_to_json_compatible", "_docarray_from_native" }
        => res.kind = "AttributeError"

\* The backends validate tests, in order, when it falls through all of them.
FullOrder ==
    (IF torch_available THEN <<"torch">> ELSE <<>>)
        \o (IF tf_available THEN <<"tensorflow">> ELSE <<>>)
        \o <<"numpy">>

\* The last backend validate tested when it handled a value of class c.
HandledBy(c) ==
    IF torch_available /\ c \in {"VideoTorchTensor", "TorchTensor", "torch.Tensor"}
    THEN "torch"
    ELSE IF tf_available /\ c \in {"VideoTensorFlowTensor", "TensorFlowTensor", "tf.Tensor"}
    THEN "tensorflow"
    ELSE "numpy"

C9_State ==
    res.op = "validate" =>
        \* torch, then tensorflow, then numpy, each only if available
        /\ res.tried = SubSeq(FullOrder, 1, Len(res.tried))
        /\ res.tried # <<>>
        /\ res.tried[Len(res.tried)] = HandledBy(ArgCls)
        \* the target kind's wrapper of an available backend is passed through
        /\ (ArgCls \in VideoWrappers /\ SupportedInput(ArgCls))
               => (res.kind = "returned" /\ res.obj = res.arg)
        \* a new wrapper is allocated only for a raw native array
        /\ (res.kind = "returned" /\ res.obj # res.arg)
               => /\ ArgCls \in {"torch.Tensor", "tf.Tensor", "np.ndarray"}
                  /\ heap[res.obj].src = res.arg
                  /\ heap[res.obj].cls \in VideoWrappers

Ended(f) == f.pc \in { "accepted", "rejected" }

\* The value starts with an HTTP scheme prefix, or is an absolute path.
AbsoluteOrHttp(v) ==
    v # <<>> /\ v[1] \in { "/", "http://h/", "http://h:99999/" }

\* The part of the value in front of its query string.
BeforeQuery(v) ==
    IF \E i \in DOMAIN v : v[i] = "?q"
    THEN SubSeq(v, 1, (CHOOSE i \in DOMAIN v :
                          v[i] = "?q" /\ \A j \in 1..(i - 1) : v[j] # "?q") - 1)
    ELSE v

\* The value, with or without its query string, ends with a whitelisted
\* extension of the subtype.
WhitelistedSuffix(f) ==
    \E ext \in f.cls.exts :
        \/ (f.value # <<>> /\ f.value[Len(f.value)] = ext)
        \/ (BeforeQuery(f.value) # <<>>
              /\ BeforeQuery(f.value)[Len(BeforeQuery(f.value))] = ext)

\* C4: for every accepted call, a relative input p comes back as p and not as
\* its absolute form; an absolute path or http URL u comes back as the
\* validated form of u, which is u itself when u has no surrounding blanks.
C4_RoundTrip ==
    \A c \in Calls :
        LET f == calls[c]
        IN  f.pc = "accepted" =>
                IF ~AbsoluteOrHttp(f.value)
                THEN f.text = f.value /\ f.text # Cwd \o f.value
                ELSE /\ f.text = f.url
                     /\ f.url # <<>>
                     /\ (f.value[Len(f.value)] # " " => f.text = f.value)

\* C4 witness: a relative path and an http URL have both been accepted.
C4_Witness ==
    /\ calls[1].pc = "accepted" /\ ~AbsoluteOrHttp(calls[1].value)
    /\ calls[2].pc = "accepted" /\ calls[2].value[1] = "http://h/"

\* C5 (as claimed): every returned URL value stores an absolute path or a
\* fully-qualified URL; the relative string is never the stored form.
C5_StoredAbsolute ==
    \A c \in Calls :
        calls[c].pc = "accepted" => AbsoluteOrHttp(calls[c].text)

\* C5 (amended): a relative input is canonicalized to its absolute form for
\* the grammar validation only, and the stored form is the relative string as
\* given; the stored form of any other input is an absolute path or starts
\* with the http scheme prefix.
C5_StoredForm ==
    \A c \in Calls :
        LET f == calls[c]
        IN  f.pc = "accepted" =>
                IF ~AbsoluteOrHttp(f.value)
                THEN /\ f.abs_path = Cwd \o f.value
                     /\ f.abs_path[1] = "/"
                     /\ f.url[1] = "/"
                     /\ f.text = f.value
                     /\ ~AbsoluteOrHttp(f.text)
                ELSE AbsoluteOrHttp(f.text)

\* C5 witness: "a.png" was accepted.
C5_Witness ==
    \E c \in Calls :
        calls[c].pc = "accepted" /\ calls[c].value = <<"a", ".png">>

\* C6: once the grammar check has passed, a detected mime type decides alone
\* (accepted iff it starts with mime_type(), whatever the whitelist says);
\* with no mime type detected the call is accepted iff the value, with or
\* without its query string, ends with an allowed extension; every other
\* call is rejected with a format error.
C6_MimePrecedence ==
    \A c \in Calls :
        LET f == calls[c]
        IN  (Ended(f) /\ f.grammar = "ok") =>
                IF f.mimetype # <<>>
                THEN /\ f.pc = "accepted" <=> f.mimetype[1] = f.cls.mime
                     /\ f.pc = "rejected" => f.err = "not_mime_format"
                ELSE /\ f.pc = "accepted" <=> WhitelistedSuffix(f)
                     /\ f.pc = "rejected" => f.err = "not_valid_format"

\* C6 witness: a whitelisted extension was rejected for its mime type.
C6_Witness ==
    \E c \in Calls :
        /\ calls[c].pc = "rejected"
        /\ calls[c].mimetype = <<"image", "/png">>
        /\ calls[c].cls.mime = "video"
        /\ WhitelistedSuffix(calls[c])

\* C7: the probe is issued only after the grammar validation has passed and
\* only when the extension lookup detected nothing; a failed probe rejects
\* nothing by itself: the call ends as the whitelist fallback decides.
C7_ProbeAdvisory ==
    \A c \in Calls :
        LET f == calls[c]
            known == BeforeQuery(f.value)
        IN  /\ (f.pc = "probing" \/ f.probed)
                => /\ f.grammar = "ok"
                   /\ f.guessed = <<>>
                   /\ known[Len(known)] # ".png"
            /\ (f.probed /\ f.probe = "fail")
                => /\ Ended(f)
                   /\ f.mimetype = <<>>
                   /\ f.pc = "accepted" <=> WhitelistedSuffix(f)
                   /\ f.pc = "rejected" => f.err = "not_valid_format"

\* C7 witness: the probe failed and the value was accepted all the same.
C7_Witness ==
    \E c \in Calls :
        calls[c].probed /\ calls[c].probe = "fail" /\ calls[c].pc = "accepted"

\* C10 (as claimed): two calls with the same raw value and the same subtype
\* end in the same outcome, whatever the probe does.
C10_SameOutcome ==
    \A c, d \in Calls :
        (/\ Ended(calls[c]) /\ Ended(calls[d])
         /\ calls[c].value = calls[d].value
         /\ calls[c].cls = calls[d].cls)
            => /\ calls[c].pc = calls[d].pc
               /\ calls[c].err = calls[d].err
               /\ calls[c].text = calls[d].text

\* C10 (amended): two calls with the same raw value and the same subtype end
\* in the same outcome when the probe, if issued, answered both alike.
C10_SameOutcomeGivenProbe ==
    \A c, d \in Calls :
        (/\ Ended(calls[c]) /\ Ended(calls[d])
         /\ calls[c].value = calls[d].value
         /\ calls[c].cls = calls[d].cls
         /\ calls[c].probe = calls[d].probe)
            => /\ calls[c].pc = calls[d].pc
               /\ calls[c].err = calls[d].err
               /\ calls[c].text = calls[d].text

\* C10 witness: both calls probed for the same value and got the same answer.
C10_Witness ==
    /\ calls[1].pc = "accepted" /\ calls[2].pc = "accepted"
    /\ calls[1].value = calls[2].value /\ calls[1].cls = calls[2].cls
    /\ calls[1].probe = "image" /\ calls[2].probe = "image"

(***************************************************************************)
(* Claims about AnyUrl.load_bytes (checked under SpecLoad)                 *)
(***************************************************************************)

\* What a load_bytes call that has just ended must have done.
C8_Call(l, fsys) ==
    IF l.url[1] \in { "http://h/", "https://h/", "data:" }
    THEN \* one fetch, its body or its failure, and no filesystem call
         /\ l.fetches = 1 /\ l.fs_ops = 0
         /\ l.net \in { "b1", "b2", "URLError" }
         /\ l.net = "URLError" => (l.kind = "raised" /\ l.value = "URLError")
         /\ l.net # "URLError" => (l.kind = "returned" /\ l.value = l.net)
    ELSE IF l.url \in DOMAIN fsys /\ fsys[l.url] # "absent"
    THEN \* the bytes the file holds now
         /\ l.kind = "returned" /\ l.value = fsys[l.url]
         /\ l.fetches = 0
    ELSE /\ l.kind = "raised" /\ l.value = "FileNotFoundError"
         /\ l.fetches = 0

\* C8: load_bytes makes one attempt: for a network scheme a single fetch whose
\* body it returns or whose failure it propagates, without touching the
\* filesystem; else the bytes of the existing file; else the 'not a URL or a
\* valid local path' error; nothing is kept from one call to the next.
C8_LoadBytes ==
    [][ load'.n # load.n => (fs' = fs /\ C8_Call(load', fs)) ]_vars

\* C8 witness: a fetch failed while a file of the URL's name exists, and a
\* second call was made.
C8_Witness ==
    /\ load.n = 2
    /\ load.url = <<"http://h/", "a", ".png">>
    /\ load.kind = "raised"
    /\ fs[load.url] = "b1"

====
